---- MODULE Spec2Model ----
(***************************************************************************)
(* Model of botwfstools/botw_contentfs.py: the BotWContent FUSE operations *)
(* object, its directory providers (HostDirectory, ArchiveDirectory,       *)
(* ContentDirectory), its file handles (HostFile, InMemoryFile), the       *)
(* FdAllocator and the memoised lookups whose cached objects are shared.   *)
(*                                                                         *)
(* Strings are sequences of one-character strings, so that startswith,     *)
(* find, slicing and the substring test are computed as the code computes  *)
(* them.  A PurePosixPath is the sequence of its parts.  File contents are *)
(* sequences of small integers.  A st_mode is the set of its bits.         *)
(***************************************************************************)
EXTENDS Integers, Sequences, FiniteSets, TLC

VARIABLES
    dirs,        \* ContentDevice.dirs: the content roots, each a host tree
    work_dir,    \* BotWContent.work_dir: None, or the work directory's name
    work,        \* the host tree below the work directory
    inodes,      \* contents of the regular files created below work_dir
    fd_map,      \* FdAllocator._fd_map: descriptor -> File object
    next_fd,     \* FdAllocator._next_fd
    files,       \* the File objects that are alive: object -> its fields
    stat_cache,  \* lru_cache of ContentDirectory._do_get_file_stats
    fd_path,     \* the path each live descriptor was opened with (the mount host's view)
    ret,         \* the last callback: its name, arguments and outcome (fresh: a
                 \* read that only reads have separated from the open of its descriptor)
    steps,       \* the number of callbacks made so far
    sarcs,       \* lru_cache of BotWContent._get_sarc: the keys it holds
    fd_lock,     \* BotWContent.fd_lock: 0, or the thread that holds it
    calls        \* the callback each thread of the mount host is in

vars ==
    <<dirs, work_dir, work, inodes, fd_map, next_fd, files, stat_cache, fd_path, ret, steps,
      sarcs, fd_lock, calls>>

None == "None"

(***************************************************************************)
(* Strings (str) as sequences of characters.                               *)
(***************************************************************************)
\* s[n:]
StrFrom(s, n) == SubSeq(s, n + 1, Len(s))

\* s[:n]
StrUpTo(s, n) == SubSeq(s, 1, n)

\* s.startswith(prefix)
StartsWith(s, prefix) ==
    /\ Len(prefix) <= Len(s)
    /\ SubSeq(s, 1, Len(prefix)) = prefix

\* s.find(c) for a single character c: the 0-based index, or -1
StrFind(s, c) ==
    IF \E i \in 1..Len(s) : s[i] = c
    THEN (CHOOSE i \in 1..Len(s) : s[i] = c /\ \A j \in 1..(i - 1) : s[j] # c) - 1
    ELSE -1

\* s.rfind(c) for a single character c: the 0-based index, or -1
StrRFind(s, c) ==
    IF \E i \in 1..Len(s) : s[i] = c
    THEN (CHOOSE i \in 1..Len(s) : s[i] = c /\ \A j \in (i + 1)..Len(s) : s[j] # c) - 1
    ELSE -1

\* sub in s
StrContains(s, sub) ==
    \E i \in 0..(Len(s) - Len(sub)) : SubSeq(s, i + 1, i + Len(sub)) = sub

(***************************************************************************)
(* pathlib.PurePosixPath: a path is the sequence of its parts.             *)
(***************************************************************************)
RECURSIVE SplitSlash(_)
\* s.split('/')
SplitSlash(s) ==
    LET i == StrFind(s, "/")
    IN  IF i = -1 THEN <<s>>
        ELSE <<StrUpTo(s, i)>> \o SplitSlash(StrFrom(s, i + 1))

\* PurePosixPath(s) for a relative s: empty parts and '.' parts are dropped
PPPath(s) ==
    SelectSeq(SplitSlash(s), LAMBDA part : part # <<>> /\ part # <<".">>)

RECURSIVE JoinSlash(_)
JoinSlash(parts) ==
    IF Len(parts) = 1 THEN parts[1]
    ELSE parts[1] \o <<"/">> \o JoinSlash(Tail(parts))

\* str(path): the parts joined by '/', and '.' for the empty path
Str(path) == IF path = <<>> THEN <<".">> ELSE JoinSlash(path)

\* path.parent: the parent of the empty path is the empty path
Parent(path) == IF path = <<>> THEN <<>> ELSE SubSeq(path, 1, Len(path) - 1)

\* path.name
Name(path) == IF path = <<>> THEN <<>> ELSE path[Len(path)]

\* path.suffix: from the last '.', unless the name starts or ends with it
Suffix(path) ==
    LET name == Name(path)
        i == StrRFind(name, ".")
    IN  IF 0 < i /\ i < Len(name) - 1 THEN StrFrom(name, i) ELSE <<>>

\* other is a prefix of path, so that path.relative_to(other) does not raise
IsRelativeTo(path, other) ==
    /\ Len(other) <= Len(path)
    /\ SubSeq(path, 1, Len(other)) = other

\* path.relative_to(other)
RelativeTo(path, other) == SubSeq(path, Len(other) + 1, Len(path))

ARCHIVE_EXTS ==
    { <<"s","a","r","c">>, <<"p","a","c","k">>,
      <<"b","a","c","t","o","r","p","a","c","k">>, <<"b","m","o","d","e","l","s","h">>,
      <<"b","e","v","e","n","t","p","a","c","k">>, <<"s","t","e","r","a">>,
      <<"s","t","a","t","s">>,
      <<"s","s","a","r","c">>, <<"s","p","a","c","k">>,
      <<"s","b","a","c","t","o","r","p","a","c","k">>, <<"s","b","m","o","d","e","l","s","h">>,
      <<"s","b","e","v","e","n","t","p","a","c","k">>, <<"s","s","t","e","r","a">>,
      <<"s","s","t","a","t","s">>,
      <<"b","l","a","r","c">>, <<"s","b","l","a","r","c">>,
      <<"g","e","n","v","b">>, <<"s","g","e","n","v","b">>,
      <<"b","f","a","r","c">>, <<"s","b","f","a","r","c">> }

is_archive_filename(path) == StrFrom(Suffix(path), 1) \in ARCHIVE_EXTS

SELF_FILE_NAME ==
    <<".","_","_","R","A","W","_","A","R","C","H","I","V","E","_","_">>

\* BotWContent._path: strip the leading slash the mount host supplies
_path(partial) ==
    PPPath(IF partial[1] = "/" THEN StrFrom(partial, 1) ELSE partial)

(***************************************************************************)
(* stat: a st_mode is the set of its bits, a stat dict keeps the two keys  *)
(* the code rewrites.                                                      *)
(***************************************************************************)
S_IFREG == {"S_IFREG"}
S_IFDIR == {"S_IFDIR"}
S_IRUSR == {"S_IRUSR"}
S_IWUSR == {"S_IWUSR"}
S_IXUSR == {"S_IXUSR"}
S_IRWXU == {"S_IRUSR", "S_IWUSR", "S_IXUSR"}

\* stat.S_ISDIR / stat.S_ISREG of a mode
IsDirMode(mode) == "S_IFDIR" \in mode /\ "S_IFREG" \notin mode
IsRegMode(mode) == "S_IFREG" \in mode /\ "S_IFDIR" \notin mode

\* my_stat(os.lstat(...)) of a host entry: a 0644 file or a 0755 directory
my_stat(kind, size) ==
    IF kind = "file"
    THEN [st_mode |-> {"S_IFREG", "S_IRUSR", "S_IWUSR", "S_IRGRP", "S_IROTH"},
          st_size |-> size]
    ELSE [st_mode |-> {"S_IFDIR", "S_IRUSR", "S_IWUSR", "S_IXUSR",
                       "S_IRGRP", "S_IXGRP", "S_IROTH", "S_IXOTH"},
          st_size |-> 4096]

change_st_to_directory(st) ==
    [st_mode |-> ((st.st_mode \ S_IFREG) \cup S_IFDIR) \cup S_IRWXU,
     st_size |-> 0]

(***************************************************************************)
(* The host file system.  A tree maps each existing path (relative to the  *)
(* tree's root, which is a directory) to its entry.  Content trees hold    *)
(* the bytes of their files; files below work_dir are inodes, so that an   *)
(* open descriptor outlives unlink and rename.                             *)
(***************************************************************************)
\* os.path.exists / isfile / isdir
Exists(tree, p) == p \in DOMAIN tree
IsFile(tree, p) == p \in DOMAIN tree /\ tree[p].kind = "file"
IsDir(tree, p) == p \in DOMAIN tree /\ tree[p].kind = "dir"

\* p or one of its ancestors is a regular file: os.listdir(p) raises
\* NotADirectoryError
UnderFile(tree, p) == \E k \in 1..Len(p) : IsFile(tree, SubSeq(p, 1, k))

\* the names os.listdir(p) returns for a directory p of the tree
ListDir(tree, p) ==
    { Name(q) : q \in { r \in DOMAIN tree : r # <<>> /\ Parent(r) = p } }

\* bytes written at an offset of a file, zero-filled if beyond its end
WriteAt(bytes, pos, data) ==
    LET n == IF Len(bytes) > pos + Len(data) THEN Len(bytes) ELSE pos + Len(data)
    IN  [i \in 1..n |->
            IF i > pos /\ i <= pos + Len(data) THEN data[i - pos]
            ELSE IF i <= Len(bytes) THEN bytes[i] ELSE 0]

\* f.truncate(length)
TruncateTo(bytes, length) ==
    [i \in 1..length |-> IF i <= Len(bytes) THEN bytes[i] ELSE 0]

\* the smallest inode number not in use
FreshIno(I) == CHOOSE n \in 1..(Cardinality(DOMAIN I) + 1) : n \notin DOMAIN I

(***************************************************************************)
(* The sarc library (external): an archive is the sequence of its entries, *)
(* in the order list_files enumerates them.  The body of an archive file   *)
(* is the magic byte followed by the number of the archive it encodes.     *)
(***************************************************************************)
Entry(name, data) == [name |-> name, data |-> data]

\* the entries an archive of the model can hold: a body byte b stands for
\* the serialized entry EntryTable[b]
EntryTable ==
    << Entry(<<"m">>, <<6, 7>>),
       Entry(<<"/", "m">>, <<9>>),
       Entry(<<"d", "/", "n">>, <<8>>),
       Entry(<<"/", "d", "/", "n">>, <<8, 8>>),
       Entry(<<"d", "m", "/", "k">>, <<5>>),
       Entry(<<"i", ".", "p", "a", "c", "k">>, <<83>>) >>

\* sarc.read_file_and_make_sarc(stream): None for a body that is no archive,
\* else the entries in the order of the body (names are unique)
read_file_and_make_sarc(bytes) ==
    IF /\ Len(bytes) >= 1
       /\ bytes[1] = 83
       /\ \A i \in 2..Len(bytes) : bytes[i] \in DOMAIN EntryTable
       /\ \A i, j \in 2..Len(bytes) : bytes[i] = bytes[j] => i = j
    THEN [ok |-> TRUE, arc |-> [i \in 1..(Len(bytes) - 1) |-> EntryTable[bytes[i + 1]]]]
    ELSE [ok |-> FALSE, arc |-> <<>>]

\* SARC.list_files()
ArcListFiles(arc) == [i \in 1..Len(arc) |-> arc[i].name]

\* name in SARC._files
ArcHas(arc, name) == \E i \in 1..Len(arc) : arc[i].name = name

\* SARC.get_file_data(name), for a name the archive holds
ArcGetFileData(arc, name) ==
    arc[CHOOSE i \in 1..Len(arc) : arc[i].name = name].data

\* SARC.get_file_size(name)
ArcGetFileSize(arc, name) == Len(ArcGetFileData(arc, name))

(***************************************************************************)
(* File handles.  A File object is a record; a HostFile holds the host     *)
(* descriptor's open file description (what it refers to, its access mode  *)
(* and its offset), an InMemoryFile the borrowed bytes and _position.      *)
(***************************************************************************)
O_RDONLY == 0
O_WRONLY == 1
O_RDWR == 2

\* flags & os.O_WRONLY or flags & os.O_RDWR
WantsWrite(flags) == (flags % 2 = 1) \/ ((flags \div 2) % 2 = 1)

\* an open of a content file that asks for write access whatever the flags:
\* C11 does not hold of it
HostFileOnContent_ReadWrite(root, p, flags) ==
    [cls |-> "HostFile", dev |-> "content", root |-> root, path |-> p, ino |-> 0,
     flags |-> O_RDWR, data |-> <<>>, pos |-> 0]

\* HostFile(os.open(<content root>/p, flags))
HostFileOnContent(root, p, flags) ==
    [cls |-> "HostFile", dev |-> "content", root |-> root, path |-> p, ino |-> 0,
     flags |-> flags, data |-> <<>>, pos |-> 0]

\* HostFile(os.open(<work_dir>/p, flags)), p being the inode ino
HostFileOnWork(ino, flags) ==
    [cls |-> "HostFile", dev |-> "work", root |-> 0, path |-> <<>>, ino |-> ino,
     flags |-> flags, data |-> <<>>, pos |-> 0]

\* InMemoryFile.__init__
InMemoryFile(data) ==
    [cls |-> "InMemoryFile", dev |-> "memory", root |-> 0, path |-> <<>>, ino |-> 0,
     flags |-> O_RDONLY, data |-> data, pos |-> 0]

\* the bytes the host holds for the file a HostFile refers to
HostBytes(f, I) ==
    IF f.dev = "content" THEN dirs[f.root][f.path].data ELSE I[f.ino]

\* a HostFile opened on a directory (os.open of a directory, read-only)
OnDirectory(f) == f.dev = "content" /\ dirs[f.root][f.path].kind = "dir"

\* bytes[pos : pos + count]
Slice(bytes, pos, count) ==
    SubSeq(bytes, pos + 1, IF pos + count > Len(bytes) THEN Len(bytes) ELSE pos + count)

\* InMemoryFile.read: the position is not advanced
InMemoryFile_read(f, count) ==
    LET actual_count ==
            IF f.pos + count > Len(f.data) THEN Len(f.data) - f.pos ELSE count
    IN  [err |-> "OK",
         data |-> IF actual_count <= 0 THEN <<>>
                  ELSE SubSeq(f.data, f.pos + 1, f.pos + actual_count),
         file |-> f]

\* HostFile.read: os.read from the descriptor's offset, which advances
HostFile_read(f, count, I) ==
    IF f.flags % 4 = O_WRONLY THEN [err |-> "EBADF", data |-> <<>>, file |-> f]
    ELSE IF OnDirectory(f) THEN [err |-> "EISDIR", data |-> <<>>, file |-> f]
    ELSE LET got == Slice(HostBytes(f, I), f.pos, count)
         IN  [err |-> "OK", data |-> got, file |-> [f EXCEPT !.pos = f.pos + Len(got)]]

\* File.read
File_read(f, count, I) ==
    IF f.cls = "InMemoryFile" THEN InMemoryFile_read(f, count)
    ELSE HostFile_read(f, count, I)

\* a seek that leaves the position where the last read left it: C7 does not
\* hold of it
File_seek_Stays(f, offset) == f

\* File.seek: InMemoryFile sets _position, HostFile calls os.lseek(SEEK_SET)
File_seek(f, offset) == [f EXCEPT !.pos = offset]

\* File.get_size
File_get_size(f, I) ==
    IF f.cls = "InMemoryFile" THEN Len(f.data)
    ELSE IF OnDirectory(f) THEN 4096
    ELSE Len(HostBytes(f, I))

\* HostFile.write: os.write fails on a descriptor not open for writing
HostFile_write(f, buf, I) ==
    IF f.flags % 4 = O_RDONLY
    THEN [err |-> "EBADF", file |-> f, I |-> I, D |-> dirs]
    ELSE IF f.dev = "content"
    THEN [err |-> "OK",
          file |-> [f EXCEPT !.pos = f.pos + Len(buf)],
          I |-> I,
          D |-> [dirs EXCEPT ![f.root][f.path].data =
                                 WriteAt(dirs[f.root][f.path].data, f.pos, buf)]]
    ELSE [err |-> "OK",
          file |-> [f EXCEPT !.pos = f.pos + Len(buf)],
          I |-> [I EXCEPT ![f.ino] = WriteAt(I[f.ino], f.pos, buf)],
          D |-> dirs]

\* InMemoryFile.write
InMemoryFile_write(f, buf, I) == [err |-> "EROFS", file |-> f, I |-> I, D |-> dirs]

\* File.write
File_write(f, buf, I) ==
    IF f.cls = "InMemoryFile" THEN InMemoryFile_write(f, buf, I)
    ELSE HostFile_write(f, buf, I)

(***************************************************************************)
(* ContentDevice and the directory providers.  A Directory object is a     *)
(* record: its class, its base (ROOT, the content device, or WORK, the     *)
(* work directory) and rel, its _path relative to its _base_path.          *)
(***************************************************************************)
\* the content roots from the last to the first: reversed(self.dirs)
Roots == 1..Len(dirs)

\* a content device whose root is not taken for a directory: C17 does not
\* hold of it
ContentDevice_isdir_BelowRoot(rel) == rel # <<>> /\ \E d \in Roots : IsDir(dirs[d], rel)

\* ContentDevice.isdir / the test of ContentDevice.try_open_dir
ContentDevice_isdir(rel) == \E d \in Roots : IsDir(dirs[d], rel)

ContentDirectory(rel) ==
    [cls |-> "ContentDirectory", base |-> "ROOT", rel |-> rel]

HostDirectory(rel) ==
    [cls |-> "HostDirectory", base |-> "WORK", rel |-> rel]

ArchiveDirectory(base, rel, archive, parent) ==
    [cls |-> "ArchiveDirectory", base |-> base, rel |-> rel,
     arc |-> archive, parent |-> parent]

\* Directory.get_path_relative_to_this
get_path_relative_to_this(dir, partial) == RelativeTo(partial, dir.rel)

\* ContentDirectory._find_parent: the last root where existence_fn holds of
\* the path (0 stands for the ENOENT it raises)
_find_parent(p, existence_fn) ==
    IF Str(p) = <<".">> THEN Len(dirs)
    ELSE LET holds(d) == IF existence_fn = "isfile" THEN IsFile(dirs[d], p)
                         ELSE Exists(dirs[d], p)
         IN  IF \E d \in Roots : holds(d)
             THEN CHOOSE d \in Roots : holds(d) /\ \A e \in Roots : holds(e) => e <= d
             ELSE 0

\* ContentDirectory.open_file
ContentDirectory_open_file(dir, file, flags) ==
    LET p == dir.rel \o file
        d == _find_parent(p, "isfile")
    IN  IF d = 0 THEN [err |-> "ENOENT", file |-> None]
        ELSE [err |-> "OK", file |-> HostFileOnContent(d, p, flags)]

\* HostDirectory.open_file: os.open below the work directory
HostDirectory_open_file(dir, file, flags, W) ==
    LET p == dir.rel \o file
    IN  IF ~Exists(W, p) THEN [err |-> "ENOENT", file |-> None]
        ELSE IF IsDir(W, p) THEN [err |-> "EISDIR", file |-> None]
        ELSE [err |-> "OK", file |-> HostFileOnWork(W[p].ino, flags)]

RECURSIVE Directory_open_file(_, _, _, _)
\* ArchiveDirectory.open_file
ArchiveDirectory_open_file(dir, file, flags, W) ==
    IF Str(file) = SELF_FILE_NAME
    THEN Directory_open_file(dir.parent, RelativeTo(dir.rel, dir.parent.rel), O_RDONLY, W)
    ELSE IF ArcHas(dir.arc, Str(file))
    THEN [err |-> "OK", file |-> InMemoryFile(ArcGetFileData(dir.arc, Str(file)))]
    ELSE IF ArcHas(dir.arc, <<"/">> \o Str(file))
    THEN [err |-> "OK",
          file |-> InMemoryFile(ArcGetFileData(dir.arc, <<"/">> \o Str(file)))]
    ELSE [err |-> "KeyError", file |-> None]

\* Directory.open_file, dispatched on the class
Directory_open_file(dir, file, flags, W) ==
    IF dir.cls = "ContentDirectory" THEN ContentDirectory_open_file(dir, file, flags)
    ELSE IF dir.cls = "HostDirectory" THEN HostDirectory_open_file(dir, file, flags, W)
    ELSE ArchiveDirectory_open_file(dir, file, flags, W)

\* the name of an entry, its leading slash kept: C8 does not hold of it
ListedName_Unstripped(name, directory) ==
    LET rest == StrFrom(name, Len(directory))
        slash_position == StrFind(rest, "/")
    IN  IF slash_position # -1 THEN StrUpTo(rest, slash_position) ELSE rest

\* the name one archive entry contributes to ArchiveDirectory.list_files
\* (the body of the loop, for a name that passed the startswith test)
ListedName(name, directory) ==
    LET stripped == IF name[1] = "/" THEN StrFrom(name, 1) ELSE name
        rest == StrFrom(stripped, Len(directory))
        slash_position == StrFind(rest, "/")
    IN  IF slash_position # -1 THEN StrUpTo(rest, slash_position) ELSE rest

\* ArchiveDirectory.list_files
ArchiveDirectory_list_files(dir, path) ==
    LET directory == IF Str(path) # <<".">> THEN Str(path) \o <<"/">> ELSE <<>>
        all == ArcListFiles(dir.arc)
        kept == { i \in 1..Len(all) : directory = <<>> \/ StartsWith(all[i], directory) }
        names == { ListedName(all[i], directory) : i \in kept }
    IN  IF directory = <<>> THEN names \cup {SELF_FILE_NAME} ELSE names

\* ContentDirectory._do_list_files: FileNotFoundError is passed over, the
\* NotADirectoryError of a root where the path is a file is not
ContentDirectory_list_files(dir, path) ==
    LET p == dir.rel \o path
    IN  IF \E d \in Roots : UnderFile(dirs[d], p)
        THEN [err |-> "ENOTDIR", names |-> {}]
        ELSE [err |-> "OK",
              names |-> UNION { ListDir(dirs[d], p) : d \in { e \in Roots : IsDir(dirs[e], p) } }]

\* Directory.list_files of the directories _get_directory_from_content returns
Directory_list_files(dir, path) ==
    IF dir.cls = "ContentDirectory" THEN ContentDirectory_list_files(dir, path)
    ELSE [err |-> "OK", names |-> ArchiveDirectory_list_files(dir, path)]

(***************************************************************************)
(* get_file_stats.  ContentDirectory._do_get_file_stats is memoised and    *)
(* returns the cached dict itself, which its callers rewrite in place: a   *)
(* result carries the key of the cached dict it is (None for a fresh       *)
(* dict) and the cache after the call.                                     *)
(***************************************************************************)
StatResult(err, st, key, cache) ==
    [err |-> err, st |-> st, key |-> key, cache |-> cache]

NoStat == [st_mode |-> {}, st_size |-> 0]

\* a rewrite of the dict a result refers to: in place if it is a cached one
Rewritten(r, st) ==
    StatResult(r.err, st, r.key,
               IF r.key = <<>> THEN r.cache ELSE [r.cache EXCEPT ![r.key[1]] = st])

\* HostDirectory.get_file_stats
HostDirectory_get_file_stats(dir, path, cache, W, I) ==
    LET p == dir.rel \o path
    IN  IF ~Exists(W, p) THEN StatResult("ENOENT", NoStat, <<>>, cache)
        ELSE StatResult("OK",
                        my_stat(W[p].kind, IF W[p].kind = "file" THEN Len(I[W[p].ino]) ELSE 0),
                        <<>>, cache)

\* ContentDirectory.get_file_stats: _do_get_file_stats behind its lru_cache,
\* keyed by the directory object and the path
ContentDirectory_get_file_stats(dir, path, cache) ==
    LET key == <<dir.rel, path>>
        p == dir.rel \o path
        d == _find_parent(p, "exists")
    IN  IF key \in DOMAIN cache THEN StatResult("OK", cache[key], <<key>>, cache)
        ELSE IF d = 0 THEN StatResult("ENOENT", NoStat, <<>>, cache)
        ELSE LET e == dirs[d][p]
                 st == my_stat(e.kind, Len(e.data))
             IN  StatResult("OK", st, <<key>>, (key :> st) @@ cache)

\* the first entry of the archive that decides get_file_stats: 0 if none
FirstDeciding(names, path) ==
    LET decides(i) == \/ names[i] = Str(path)
                      \/ names[i] = <<"/">> \o Str(path)
                      \/ StrContains(names[i], Str(path) \o <<"/">>)
    IN  IF \E i \in 1..Len(names) : decides(i)
        THEN CHOOSE i \in 1..Len(names) : decides(i) /\ \A j \in 1..(i - 1) : ~decides(j)
        ELSE 0

\* ArchiveDirectory.get_file_stats, from the stat of the archive file on:
\* arc_stat is the dict the parent returned, rewritten in place
ArchiveStat(dir, path, arc_stat, names, i) ==
    IF arc_stat.err # "OK" THEN arc_stat
    ELSE IF Str(path) = SELF_FILE_NAME THEN arc_stat
    ELSE IF i = 0 THEN StatResult("ENOENT", NoStat, <<>>, arc_stat.cache)
    ELSE IF names[i] = Str(path) \/ names[i] = <<"/">> \o Str(path)
    THEN Rewritten(arc_stat,
             [st_mode |-> (((arc_stat.st.st_mode \ S_IFDIR) \ S_IXUSR)
                              \cup S_IFREG) \cup (S_IRUSR \cup S_IWUSR),
              st_size |-> ArcGetFileSize(dir.arc, names[i])])
    ELSE Rewritten(arc_stat, change_st_to_directory(arc_stat.st))

RECURSIVE Directory_get_file_stats(_, _, _, _, _)
\* ArchiveDirectory.get_file_stats
ArchiveDirectory_get_file_stats(dir, path, cache, W, I) ==
    ArchiveStat(dir, path,
                Directory_get_file_stats(dir.parent, RelativeTo(dir.rel, dir.parent.rel),
                                         cache, W, I),
                ArcListFiles(dir.arc),
                FirstDeciding(ArcListFiles(dir.arc), path))

\* Directory.get_file_stats, dispatched on the class
Directory_get_file_stats(dir, path, cache, W, I) ==
    IF dir.cls = "ContentDirectory" THEN ContentDirectory_get_file_stats(dir, path, cache)
    ELSE IF dir.cls = "HostDirectory" THEN HostDirectory_get_file_stats(dir, path, cache, W, I)
    ELSE ArchiveDirectory_get_file_stats(dir, path, cache, W, I)

(***************************************************************************)
(* BotWContent: directory and file resolution.  W is the tree below the    *)
(* work directory and I its inodes at the time of the call.                *)
(***************************************************************************)
DirResult(err, dir) == [err |-> err, dir |-> dir]

SarcResult(err, dir, arc) == [err |-> err, dir |-> dir, arc |-> arc]

\* BotWContent._get_sarc, from the opened archive file on: read it whole,
\* parse it, raise ENOENT if the parser returns None
SarcOfFile(parent, archive_file, I) ==
    LET body == File_read(archive_file.file, File_get_size(archive_file.file, I), I)
        archive == read_file_and_make_sarc(body.data)
    IN  IF archive_file.err # "OK" THEN SarcResult(archive_file.err, None, <<>>)
        ELSE IF body.err # "OK" THEN SarcResult(body.err, None, <<>>)
        ELSE IF archive.ok THEN SarcResult("OK", parent.dir, archive.arc)
        ELSE SarcResult("ENOENT", None, <<>>)

\* BotWContent._get_sarc, from the parent directory on
SarcInParent(parent, path, W, I) ==
    IF parent.err # "OK" THEN SarcResult(parent.err, None, <<>>)
    ELSE SarcOfFile(parent,
                    Directory_open_file(parent.dir,
                                        get_path_relative_to_this(parent.dir, path),
                                        O_RDONLY, W),
                    I)

RECURSIVE _get_directory(_, _, _, _)
\* BotWContent._get_sarc: the parent directory and the parsed archive (the
\* same on a hit of its lru_cache as on a miss, while the files are as they
\* were)
_get_sarc(base_path, path, W, I) ==
    SarcInParent(_get_directory(base_path, Parent(path), W, I), path, W, I)

\* the ArchiveDirectory _get_directory builds from what _get_sarc returns
ArchiveDirectoryOf(base_path, path, sarc) ==
    IF sarc.err # "OK" THEN DirResult(sarc.err, None)
    ELSE DirResult("OK", ArchiveDirectory(base_path, path, sarc.arc, sarc.dir))

\* BotWContent._get_directory: the loop over path, path.parent, ...; the
\* parent of the empty path is the empty path, so a loop that passes it
\* never ends (HANG)
_get_directory(base_path, path, W, I) ==
    IF (IF base_path = "ROOT" THEN ContentDevice_isdir(path) ELSE IsDir(W, path))
    THEN DirResult("OK", IF base_path = "ROOT" THEN ContentDirectory(path)
                         ELSE HostDirectory(path))
    ELSE IF path # <<>> /\ is_archive_filename(path)
    THEN ArchiveDirectoryOf(base_path, path, _get_sarc(base_path, path, W, I))
    ELSE IF path = <<>> THEN DirResult("HANG", None)
    ELSE _get_directory(base_path, Parent(path), W, I)

RECURSIVE DirKeys(_, _, _, _)
\* the keys the lru_cache of _get_sarc holds after _get_directory(base_path,
\* path): those of the archives it parsed (an exception is not memoised)
DirKeys(base_path, path, W, I) ==
    IF (IF base_path = "ROOT" THEN ContentDevice_isdir(path) ELSE IsDir(W, path))
    THEN {}
    ELSE IF path # <<>> /\ is_archive_filename(path)
    THEN DirKeys(base_path, Parent(path), W, I)
            \cup (IF _get_sarc(base_path, path, W, I).err = "OK"
                  THEN {<<base_path, path>>} ELSE {})
    ELSE IF path = <<>> THEN {}
    ELSE DirKeys(base_path, Parent(path), W, I)

\* parent.open_file(parent.get_path_relative_to_this(path), flags)
OpenIn(parent, path, flags, W) ==
    IF parent.err # "OK" THEN [err |-> parent.err, file |-> None]
    ELSE Directory_open_file(parent.dir, get_path_relative_to_this(parent.dir, path),
                             flags, W)

\* BotWContent._get_file
_get_file(base_path, path, flags, W, I) ==
    OpenIn(_get_directory(base_path, Parent(path), W, I), path, flags, W)

\* BotWContent._get_directory_from_content; its lru_cache returns equal
\* directories for equal paths
_get_directory_from_content(path, W, I) == _get_directory("ROOT", path, W, I)

\* BotWContent._get_parent_directory_from_partial
_get_parent_directory_from_partial(path, W, I) ==
    IF work_dir # None /\ Exists(W, path) THEN _get_directory("WORK", Parent(path), W, I)
    ELSE _get_directory_from_content(Parent(path), W, I)

\* the File objects: the one _get_file_from_content memoises for a path, and
\* the one a descriptor alone refers to
CachedFile(path) == [k |-> "cache", path |-> path, fd |-> 0]
OwnFile(fd) == [k |-> "own", path |-> <<>>, fd |-> fd]

FileResult(err, id, F) == [err |-> err, id |-> id, F |-> F]

\* the lru_cache of _get_file_from_content on a miss: r is what _get_file
\* returned; an exception is not memoised
Memoised(path, F, r) ==
    IF r.err # "OK" THEN FileResult(r.err, None, F)
    ELSE FileResult("OK", CachedFile(path), (CachedFile(path) :> r.file) @@ F)

\* BotWContent._get_file_from_content behind its lru_cache: a second call
\* with the same path returns the File object of the first
_get_file_from_content(path, F, W, I) ==
    IF CachedFile(path) \in DOMAIN F THEN FileResult("OK", CachedFile(path), F)
    ELSE Memoised(path, F, _get_file("ROOT", path, O_RDONLY, W, I))

(***************************************************************************)
(* FdAllocator                                                             *)
(***************************************************************************)
\* FdAllocator.allocate: the first descriptor from _next_fd on that is free
AllocatedFd(M, next) ==
    CHOOSE fd \in next..(next + Cardinality(DOMAIN M)) :
        fd \notin DOMAIN M /\ \A g \in next..(fd - 1) : g \in DOMAIN M

\* FdAllocator.free: the map without fd
FreedMap(M, fd) == [g \in DOMAIN M \ {fd} |-> M[g]]

\* a free that leaves _next_fd where it is: C13 does not hold of it
FreedNext_Kept(next, fd) == next

\* FdAllocator.free: _next_fd = min(_next_fd, fd)
FreedNext(next, fd) == IF next < fd THEN next ELSE fd

(***************************************************************************)
(* Host operations below the work directory.                               *)
(***************************************************************************)
DirEntry == [kind |-> "dir", ino |-> 0]
FileEntry(ino) == [kind |-> "file", ino |-> ino]

\* the prefixes of p, from the empty path to p itself
Prefixes(p) == { SubSeq(p, 1, k) : k \in 0..Len(p) }

\* os.makedirs(<work_dir>/p, exist_ok=exist_ok)
Makedirs(W, p, exist_ok) ==
    IF \E q \in Prefixes(p) : IsFile(W, q)
    THEN [err |-> IF IsFile(W, p) THEN "EEXIST" ELSE "ENOTDIR", W |-> W]
    ELSE IF IsDir(W, p)
    THEN [err |-> IF exist_ok THEN "OK" ELSE "EEXIST", W |-> W]
    ELSE [err |-> "OK",
          W |-> [q \in DOMAIN W \cup Prefixes(p) |->
                    IF q \in DOMAIN W THEN W[q] ELSE DirEntry]]

\* the tree without p and everything below it
Without(W, p) == [q \in { r \in DOMAIN W : ~IsRelativeTo(r, p) } |-> W[q]]

\* the inodes still linked below the work directory or held open
LiveInodes(W, F, I) ==
    [n \in { m \in DOMAIN I :
                \/ \E q \in DOMAIN W : W[q] = FileEntry(m)
                \/ \E h \in DOMAIN F : F[h].dev = "work" /\ F[h].ino = m } |-> I[n]]

\* os.rename(<work_dir>/old, <work_dir>/new)
OsRename(W, old, new) ==
    IF old = new THEN [err |-> "OK", W |-> W]
    ELSE IF \E q \in Prefixes(Parent(new)) : IsFile(W, q)
    THEN [err |-> "ENOTDIR", W |-> W]
    ELSE IF new # <<>> /\ ~IsDir(W, Parent(new)) THEN [err |-> "ENOENT", W |-> W]
    ELSE IF IsDir(W, old) /\ IsRelativeTo(new, old) THEN [err |-> "EINVAL", W |-> W]
    ELSE IF IsDir(W, old) /\ IsFile(W, new) THEN [err |-> "ENOTDIR", W |-> W]
    ELSE IF IsFile(W, old) /\ IsDir(W, new) THEN [err |-> "EISDIR", W |-> W]
    ELSE IF IsDir(W, new) /\ ListDir(W, new) # {} THEN [err |-> "ENOTEMPTY", W |-> W]
    ELSE LET kept == Without(Without(W, new), old)
             moved == { q \in DOMAIN W : IsRelativeTo(q, old) }
             target(q) == new \o RelativeTo(q, old)
         IN  [err |-> "OK",
              W |-> [r \in DOMAIN kept \cup { target(q) : q \in moved } |->
                        IF \E q \in moved : target(q) = r
                        THEN W[CHOOSE q \in moved : target(q) = r]
                        ELSE kept[r]]]

(***************************************************************************)
(* The callbacks of BotWContent.  Each action is one callback, run to its  *)
(* return or to the exception that ends it; ret records the callback, its  *)
(* arguments and its outcome (err is "OK" or the error raised).            *)
(***************************************************************************)
NoRet ==
    [op |-> "none", partial |-> <<>>, new |-> <<>>, flags |-> 0, fd |-> -1,
     offset |-> 0, length |-> 0, from |-> 0, buf |-> <<>>, err |-> "OK",
     data |-> <<>>, names |-> {}, sterr |-> "OK", st |-> NoStat, promoted |-> FALSE, fresh |-> FALSE,
     back |-> FALSE, was |-> <<>>, keys |-> {},
     twin |-> [names |-> {}, err |-> "OK", data |-> <<>>, sterr |-> "OK", st |-> NoStat]]

Ret(fields) == fields @@ NoRet

\* the state after a callback that may have touched the work directory,
\* the File objects and the descriptor table
Settles(W, I, F, M, next, paths, r) ==
    /\ work' = W
    /\ files' = F
    /\ inodes' = LiveInodes(W, F, I)
    /\ fd_map' = M
    /\ next_fd' = next
    /\ fd_path' = paths
    /\ ret' = r
    /\ sarcs' = sarcs \cup r.keys
    /\ UNCHANGED <<work_dir, stat_cache>>

\* the same for the callbacks that make no write through a descriptor
Becomes(W, I, F, M, next, paths, r) ==
    /\ Settles(W, I, F, M, next, paths, r)
    /\ UNCHANGED dirs

Fails(r) == Becomes(work, inodes, files, fd_map, next_fd, fd_path, r)

WorkResult(err, W, I, F) == [err |-> err, W |-> W, I |-> I, F |-> F]

\* target.write(file.read(file.get_size())): what the content-device handle
\* reads from where it stands goes into the new file ino
PromoteCopy(ino, W, I, got, file) ==
    LET body == File_read(file, File_get_size(file, I), I)
    IN  IF body.err # "OK" THEN WorkResult(body.err, W, I, got.F)
        ELSE WorkResult("OK", W, [I EXCEPT ![ino] = body.data],
                        [got.F EXCEPT ![got.id] = body.file])

\* the new file under the work directory exists (W, I) before the
\* content-device handle got is looked up
PromoteFrom(ino, W, I, F, got) ==
    IF got.err # "OK" THEN WorkResult(got.err, W, I, F)
    ELSE PromoteCopy(ino, W, I, got, got.F[got.id])

\* the promotion of BotWContent.open: the parent directories, the new file
\* under the work directory, then the copy
Promote(p, W, I, F) ==
    LET mk == Makedirs(W, Parent(p), TRUE)
        ino == FreshIno(I)
        W2 == (p :> FileEntry(ino)) @@ mk.W
        I2 == (ino :> <<>>) @@ I
    IN  IF mk.err # "OK" THEN WorkResult(mk.err, mk.W, I, F)
        ELSE IF IsDir(mk.W, p) THEN WorkResult("EISDIR", mk.W, I, F)
        ELSE PromoteFrom(ino, W2, I2, F, _get_file_from_content(p, F, W2, I2))

\* a File object no cache holds, for the descriptor fd
Owned(fd, F, own) ==
    IF own.err # "OK" THEN FileResult(own.err, None, F)
    ELSE FileResult("OK", OwnFile(fd), (OwnFile(fd) :> own.file) @@ F)

\* a lookup that never consults the work directory: C4 does not hold of it
_get_file_from_partial_ContentOnly(p, fd, F, W, I) == _get_file_from_content(p, F, W, I)

\* BotWContent._get_file_from_partial, for the read-only open
_get_file_from_partial(p, fd, F, W, I) ==
    IF work_dir # None /\ IsFile(W, p)
    THEN Owned(fd, F, _get_file("WORK", p, O_RDONLY, W, I))
    ELSE _get_file_from_content(p, F, W, I)

\* BotWContent.open with write access, after the promotion pr (if any):
\* os.open of the file under the work directory
OpenForWrite(p, r, fd, promotes, pr) ==
    IF pr.err # "OK"
    THEN Becomes(pr.W, pr.I, pr.F, fd_map, next_fd, fd_path, Ret([err |-> pr.err] @@ r))
    ELSE IF IsDir(pr.W, p)
    THEN Becomes(pr.W, pr.I, pr.F, fd_map, next_fd, fd_path, Ret([err |-> "EISDIR"] @@ r))
    ELSE Becomes(pr.W, pr.I,
                 (OwnFile(fd) :> HostFileOnWork(pr.W[p].ino, r.flags)) @@ pr.F,
                 (fd :> OwnFile(fd)) @@ fd_map, fd + 1,
                 (fd :> r.partial) @@ fd_path,
                 Ret([fd |-> fd, promoted |-> promotes] @@ r))

\* BotWContent.open without write access: the handle ro gets a descriptor
OpenForRead(r, fd, ro) ==
    IF ro.err # "OK" THEN Fails(Ret([err |-> ro.err] @@ r))
    ELSE Becomes(work, inodes, ro.F, (fd :> ro.id) @@ fd_map, fd + 1,
                 (fd :> r.partial) @@ fd_path, Ret([fd |-> fd] @@ r))

\* the archives a lookup of the content file p parses, unless
\* _get_file_from_content has memoised it
ContentFileKeys(p) ==
    IF CachedFile(p) \in DOMAIN files THEN {}
    ELSE DirKeys("ROOT", Parent(p), work, inodes)

\* the archives BotWContent.open parses
OpenKeys(p, flags) ==
    IF WantsWrite(flags)
    THEN IF work_dir # None /\ ~Exists(work, p) /\ Makedirs(work, Parent(p), TRUE).err = "OK"
         THEN ContentFileKeys(p) ELSE {}
    ELSE IF work_dir # None /\ IsFile(work, p)
    THEN DirKeys("WORK", Parent(p), work, inodes)
    ELSE ContentFileKeys(p)

\* BotWContent.open (keys: the archives it has parsed)
Open(partial, flags) ==
    LET p == _path(partial)
        r == [op |-> "open", partial |-> partial, flags |-> flags,
              keys |-> OpenKeys(_path(partial), flags)]
        fd == AllocatedFd(fd_map, next_fd)
    IN  IF WantsWrite(flags)
        THEN IF work_dir = None THEN Fails(Ret([err |-> "EROFS"] @@ r))
             ELSE OpenForWrite(p, r, fd, ~Exists(work, p),
                               IF ~Exists(work, p) THEN Promote(p, work, inodes, files)
                               ELSE WorkResult("OK", work, inodes, files))
        ELSE OpenForRead(r, fd, _get_file_from_partial(p, fd, files, work, inodes))

\* BotWContent.create
Create(partial) ==
    LET p == _path(partial)
        r == [op |-> "create", partial |-> partial, flags |-> O_RDWR]
        fd == AllocatedFd(fd_map, next_fd)
        mk == Makedirs(work, Parent(p), TRUE)
        ino == IF IsFile(mk.W, p) THEN mk.W[p].ino ELSE FreshIno(inodes)
    IN  IF work_dir = None THEN Fails(Ret([err |-> "EROFS"] @@ r))
        ELSE IF mk.err # "OK"
        THEN Becomes(mk.W, inodes, files, fd_map, next_fd, fd_path,
                     Ret([err |-> mk.err] @@ r))
        ELSE IF IsDir(mk.W, p)
        THEN Becomes(mk.W, inodes, files, fd_map, next_fd, fd_path,
                     Ret([err |-> "EISDIR"] @@ r))
        ELSE Becomes((p :> FileEntry(ino)) @@ mk.W,
                     IF IsFile(mk.W, p) THEN inodes ELSE (ino :> <<>>) @@ inodes,
                     (OwnFile(fd) :> HostFileOnWork(ino, O_RDWR)) @@ files,
                     (fd :> OwnFile(fd)) @@ fd_map, fd + 1,
                     (fd :> partial) @@ fd_path, Ret([fd |-> fd] @@ r))

\* BotWContent.read
Read(fd, length, offset) ==
    LET file == File_seek(files[fd_map[fd]], offset)
        got == File_read(file, length, inodes)
        r == [op |-> "read", partial |-> fd_path[fd], fd |-> fd,
              length |-> length, offset |-> offset,
              from |-> files[fd_map[fd]].pos,
              fresh |-> /\ ret.fd = fd
                        /\ ret.err = "OK"
                        /\ ret.op = "open" \/ (ret.op = "read" /\ ret.fresh)]
    IN  /\ fd \in DOMAIN fd_map
        /\ Becomes(work, inodes, [files EXCEPT ![fd_map[fd]] = got.file],
                   fd_map, next_fd, fd_path,
                   Ret([err |-> got.err, data |-> got.data] @@ r))

\* BotWContent.write: os.write reaches the file the descriptor is open on
Write(fd, buf, offset) ==
    LET file == File_seek(files[fd_map[fd]], offset)
        put == File_write(file, buf, inodes)
        r == [op |-> "write", partial |-> fd_path[fd], fd |-> fd,
              buf |-> buf, offset |-> offset]
    IN  /\ fd \in DOMAIN fd_map
        /\ dirs' = put.D
        /\ Settles(work, put.I, [files EXCEPT ![fd_map[fd]] = put.file],
                   fd_map, next_fd, fd_path, Ret([err |-> put.err] @@ r))

\* BotWContent.truncate
Truncate(partial, length) ==
    LET p == _path(partial)
        r == [op |-> "truncate", partial |-> partial, length |-> length]
    IN  IF work_dir = None THEN Fails(Ret([err |-> "EROFS"] @@ r))
        ELSE IF ~Exists(work, p) THEN Fails(Ret([err |-> "ENOENT"] @@ r))
        ELSE IF IsDir(work, p) THEN Fails(Ret([err |-> "EISDIR"] @@ r))
        ELSE Becomes(work,
                     [inodes EXCEPT ![work[p].ino] = TruncateTo(inodes[work[p].ino], length)],
                     files, fd_map, next_fd, fd_path, Ret(r))

\* BotWContent.mkdir
Mkdir(partial) ==
    LET p == _path(partial)
        r == [op |-> "mkdir", partial |-> partial]
        mk == Makedirs(work, p, FALSE)
    IN  IF work_dir = None THEN Fails(Ret([err |-> "EROFS"] @@ r))
        ELSE Becomes(mk.W, inodes, files, fd_map, next_fd, fd_path,
                     Ret([err |-> mk.err] @@ r))

\* BotWContent.rmdir
Rmdir(partial) ==
    LET p == _path(partial)
        r == [op |-> "rmdir", partial |-> partial]
    IN  IF work_dir = None \/ ~Exists(work, p) THEN Fails(Ret([err |-> "EROFS"] @@ r))
        ELSE IF IsFile(work, p) THEN Fails(Ret([err |-> "ENOTDIR"] @@ r))
        ELSE IF ListDir(work, p) # {} THEN Fails(Ret([err |-> "ENOTEMPTY"] @@ r))
        ELSE Becomes(Without(work, p), inodes, files, fd_map, next_fd, fd_path, Ret(r))

\* an unlink that hands every path to the host when a work directory is
\* configured: C10 does not hold of it
Unlink_Unguarded(partial) ==
    LET p == _path(partial)
        r == [op |-> "unlink", partial |-> partial]
    IN  IF work_dir = None THEN Fails(Ret([err |-> "EROFS"] @@ r))
        ELSE IF ~Exists(work, p) THEN Fails(Ret([err |-> "ENOENT"] @@ r))
        ELSE IF IsDir(work, p) THEN Fails(Ret([err |-> "EISDIR"] @@ r))
        ELSE Becomes(Without(work, p), inodes, files, fd_map, next_fd, fd_path, Ret(r))

\* BotWContent.unlink
Unlink(partial) ==
    LET p == _path(partial)
        r == [op |-> "unlink", partial |-> partial]
    IN  IF work_dir = None \/ ~Exists(work, p) THEN Fails(Ret([err |-> "EROFS"] @@ r))
        ELSE IF IsDir(work, p) THEN Fails(Ret([err |-> "EISDIR"] @@ r))
        ELSE Becomes(Without(work, p), inodes, files, fd_map, next_fd, fd_path, Ret(r))

\* what is to be seen below the work directory: each path, its kind, and
\* the bytes of a regular file
Visible(W, I) ==
    [p \in DOMAIN W |->
        [kind |-> W[p].kind, data |-> IF W[p].kind = "file" THEN I[W[p].ino] ELSE <<>>]]

\* BotWContent.rename (back: the rename before it was that of new to old;
\* was: what was below the work directory before the first of the two)
Rename(old, new) ==
    LET back == /\ ret.op = "rename" /\ ret.err # "EROFS"
                /\ ret.partial = new /\ ret.new = old
        r == [op |-> "rename", partial |-> old, new |-> new, back |-> back,
              was |-> IF back THEN ret.was ELSE Visible(work, inodes)]
        mv == OsRename(work, _path(old), _path(new))
    IN  IF work_dir = None \/ ~Exists(work, _path(old))
        THEN Fails(Ret([err |-> "EROFS"] @@ r))
        ELSE Becomes(mv.W, inodes, files, fd_map, next_fd, fd_path,
                     Ret([err |-> mv.err] @@ r))

\* BotWContent.release: the descriptor is freed; a File object no cache and
\* no other descriptor refers to is destroyed
Release(fd) ==
    LET M == FreedMap(fd_map, fd)
        F == [h \in { g \in DOMAIN files :
                        g.k = "cache" \/ \E e \in DOMAIN M : M[e] = g } |-> files[h]]
    IN  /\ fd \in DOMAIN fd_map
        /\ Becomes(work, inodes, F, M, FreedNext(next_fd, fd),
                   [g \in DOMAIN M |-> fd_path[g]],
                   Ret([op |-> "release", partial |-> fd_path[fd], fd |-> fd]))

\* BotWContent.getattr, from the stat dict got on: an archive name makes it
\* a directory, in place
GetattrOf(p, r, got) ==
    IF got.err # "OK"
    THEN ret' = Ret([err |-> got.err] @@ r) /\ stat_cache' = got.cache
    ELSE IF is_archive_filename(p)
    THEN /\ ret' = Ret([st |-> change_st_to_directory(got.st)] @@ r)
         /\ stat_cache' = Rewritten(got, change_st_to_directory(got.st)).cache
    ELSE ret' = Ret([st |-> got.st] @@ r) /\ stat_cache' = got.cache

\* BotWContent.getattr, from the parent directory on
GetattrIn(p, r, parent) ==
    IF parent.err # "OK"
    THEN ret' = Ret([err |-> parent.err] @@ r) /\ stat_cache' = stat_cache
    ELSE GetattrOf(p, r,
                   Directory_get_file_stats(parent.dir,
                                            get_path_relative_to_this(parent.dir, p),
                                            stat_cache, work, inodes))

\* BotWContent.getattr
Getattr(partial) ==
    /\ GetattrIn(_path(partial), [op |-> "getattr", partial |-> partial],
                 _get_parent_directory_from_partial(_path(partial), work, inodes))
    /\ sarcs' = sarcs \cup DirKeys(IF work_dir # None /\ Exists(work, _path(partial))
                                   THEN "WORK" ELSE "ROOT",
                                   Parent(_path(partial)), work, inodes)
    /\ UNCHANGED <<dirs, work_dir, work, inodes, fd_map, next_fd, files, fd_path>>

\* the entries of readdir: '.', '..', the work directory's and those of the
\* content-device directory; of the errors of the content lookup only the
\* FuseOSError (ENOENT) is passed over
ReaddirListed(r, entries, directory, listed) ==
    IF directory.err = "ENOENT" THEN Ret([names |-> entries] @@ r)
    ELSE IF directory.err # "OK" THEN Ret([err |-> directory.err] @@ r)
    ELSE IF listed.err # "OK" THEN Ret([err |-> listed.err] @@ r)
    ELSE Ret([names |-> entries \cup listed.names] @@ r)

ReaddirIn(p, r, entries, directory) ==
    ReaddirListed(r, entries, directory,
                  Directory_list_files(directory.dir,
                                       get_path_relative_to_this(directory.dir, p)))

\* BotWContent.readdir
Readdir(partial) ==
    LET p == _path(partial)
        from_work == IF work_dir # None /\ IsDir(work, p) THEN ListDir(work, p) ELSE {}
    IN  /\ ret' = ReaddirIn(p, [op |-> "readdir", partial |-> partial],
                            {<<".">>, <<".", ".">>} \cup from_work,
                            _get_directory_from_content(p, work, inodes))
        /\ sarcs' = sarcs \cup DirKeys("ROOT", p, work, inodes)
        /\ UNCHANGED <<dirs, work_dir, work, inodes, fd_map, next_fd, files,
                       stat_cache, fd_path>>

(***************************************************************************)
(* The mounts of the model.  Two content roots: /a is a file in both, /s a *)
(* file in the first and a directory in the second, /p.pack an archive in  *)
(* the second.                                                             *)
(***************************************************************************)
ContentDir == [kind |-> "dir", data |-> <<>>]
ContentFile(data) == [kind |-> "file", data |-> data]

PackName == <<"p", ".", "p", "a", "c", "k">>

ContentRoots(body) ==
    << (<<>> :> ContentDir)
           @@ (<< <<"a">> >> :> ContentFile(<<1, 2, 3>>))
           @@ (<< <<"s">> >> :> ContentFile(<<4, 5>>)),
       (<<>> :> ContentDir)
           @@ (<< <<"a">> >> :> ContentFile(<<6, 7>>))
           @@ (<< <<"s">> >> :> ContentDir)
           @@ (<< PackName >> :> ContentFile(body)) >>

\* the archive of the mount: the members m and /d/n
MainBody == <<83, 1, 4>>

\* partial paths as the mount host supplies them
Slash(partial, name) == partial \o <<"/">> \o name
P_root == <<"/">>
P_a == <<"/", "a">>
P_s == <<"/", "s">>
P_z == <<"/", "z">>
P_w == <<"/", "w">>
P_pack == <<"/">> \o PackName
P_m == Slash(P_pack, <<"m">>)
P_d == Slash(P_pack, <<"d">>)
P_n == Slash(P_d, <<"n">>)
P_raw == Slash(P_pack, SELF_FILE_NAME)

\* the most descriptors the model keeps open at once
MaxFds == 2

\* the most callbacks of one run of the model
MaxSteps == 4

\* the arguments the mount host calls the callbacks with
OpenArgs ==
    { <<P_a, O_RDONLY>>, <<P_s, O_RDONLY>>, <<P_m, O_RDONLY>>, <<P_raw, O_RDONLY>>,
      <<P_a, O_RDWR>>, <<P_m, O_RDWR>>, <<P_z, O_WRONLY>> }
CreateArgs == {P_w}
ReadArgs == { <<3, 0>>, <<1, 1>> }
WriteArgs == { <<(<<0>>), 1>> }
TruncateArgs == { <<P_a, 1>> }
MkdirArgs == {P_w}
RmdirArgs == {P_w}
UnlinkArgs == {P_a, P_w}
RenameArgs == { <<P_a, P_w>>, <<P_w, P_a>> }
GetattrArgs == {P_a, P_s, P_pack, P_m, P_raw, P_z}
ReaddirArgs == {P_s, P_pack, P_d}

\* the threads of the mount host that may be in a callback at once
NThreads == 2
Threads == 1..NThreads

\* a thread that is in no callback
Idle ==
    [pc |-> "idle", op |-> "none", partial |-> <<>>, flags |-> 0, fd |-> -1,
     length |-> 0, offset |-> 0, buf |-> <<>>, keys |-> {}]

Init ==
    /\ dirs = ContentRoots(MainBody)
    /\ work_dir \in {None, "W"}
    /\ work = (<<>> :> DirEntry)
    /\ inodes = <<>>
    /\ fd_map = <<>>
    /\ next_fd = 0
    /\ files = <<>>
    /\ stat_cache = <<>>
    /\ fd_path = <<>>
    /\ ret = NoRet
    /\ steps = 0
    /\ sarcs = {}
    /\ fd_lock = 0
    /\ calls = [t \in Threads |-> Idle]

\* one more callback, made from start to end while no other is under way
Alone == UNCHANGED <<fd_lock, calls>>
Step == steps < MaxSteps /\ steps' = steps + 1 /\ Alone

\* a descriptor can still be allocated
FdLeft == Cardinality(DOMAIN fd_map) < MaxFds

Next ==
    \/ \E a \in OpenArgs : Step /\ FdLeft /\ Open(a[1], a[2])
    \/ \E partial \in CreateArgs : Step /\ FdLeft /\ Create(partial)
    \/ \E fd \in DOMAIN fd_map, a \in ReadArgs : Step /\ Read(fd, a[1], a[2])
    \/ \E fd \in DOMAIN fd_map, a \in WriteArgs : Step /\ Write(fd, a[1], a[2])
    \/ \E a \in TruncateArgs : Step /\ Truncate(a[1], a[2])
    \/ \E partial \in MkdirArgs : Step /\ Mkdir(partial)
    \/ \E partial \in RmdirArgs : Step /\ Rmdir(partial)
    \/ \E partial \in UnlinkArgs : Step /\ Unlink(partial)
    \/ \E a \in RenameArgs : Step /\ Rename(a[1], a[2])
    \/ \E fd \in DOMAIN fd_map : Step /\ Release(fd)
    \/ \E partial \in GetattrArgs : Step /\ Getattr(partial)
    \/ \E partial \in ReaddirArgs : Step /\ Readdir(partial)

Spec == Init /\ [][Next]_vars

(***************************************************************************)
(* The mounts of every archive.  /p.pack holds any archive of at most      *)
(* MaxEntries entries; the callbacks that look into it are called, and the *)
(* ArchiveDirectory of the mount is looked up next to its twin, the same   *)
(* archive with a leading '/' on every name.                               *)
(***************************************************************************)
\* the most entries of an archive
MaxEntries == 2

\* the most callbacks of one run on an archive
MaxArcSteps == 2

\* the bodies of the archives: the magic byte, then distinct entries
Bodies ==
    { <<83>> \o b : b \in { c \in UNION { [1..n -> DOMAIN EntryTable] : n \in 0..MaxEntries } :
                                \A i, j \in DOMAIN c : c[i] = c[j] => i = j } }

P_dm == Slash(P_pack, <<"d", "m">>)
P_k == Slash(P_dm, <<"k">>)
P_i == Slash(P_pack, <<"i", ".", "p", "a", "c", "k">>)
P_x == Slash(P_pack, <<"x">>)

ArcGetattrArgs == {P_pack, P_raw, P_m, P_d, P_n, P_dm, P_k, P_i, P_x}
ArcReaddirArgs == {P_pack, P_d, P_dm}

\* the paths looked up in the ArchiveDirectory and in its twin
LookupArgs ==
    { PPPath(sub) : sub \in { <<".">>, <<"m">>, <<"d">>, <<"d", "/", "n">>, <<"d", "m">>,
                              <<"d", "m", "/", "k">>, <<"i", ".", "p", "a", "c", "k">>,
                              <<"x">> } }

\* the archive with a leading '/' on every name
Slashed(arc) == [i \in 1..Len(arc) |-> Entry(<<"/">> \o arc[i].name, arc[i].data)]

\* no name of the archive has a leading '/'
Bare(arc) == \A i \in 1..Len(arc) : arc[i].name[1] # "/"

\* the bytes open_file gives access to
Opened_data(got, I) ==
    IF got.err # "OK" THEN <<>>
    ELSE IF got.file.cls = "InMemoryFile" THEN got.file.data
    ELSE HostBytes(got.file, I)

\* list_files, open_file and get_file_stats of one ArchiveDirectory
LookupResult(names, got, stats) ==
    [names |-> names, err |-> got.err, data |-> Opened_data(got, inodes),
     sterr |-> stats.err, st |-> stats.st]

LookupIn(dir, path, stats) ==
    LookupResult(ArchiveDirectory_list_files(dir, path),
                 ArchiveDirectory_open_file(dir, path, O_RDONLY, work),
                 stats)

\* the lookups of path in the ArchiveDirectory dir of the mount and in twin
LookupBoth(path, dir, twin, stats) ==
    /\ ret' = Ret(LookupIn(dir, path, stats)
                  @@ [op |-> "lookup", partial |-> Str(path),
                      twin |-> LookupIn(twin, path,
                                        ArchiveDirectory_get_file_stats(twin, path, stat_cache,
                                                                        work, inodes))])
    /\ stat_cache' = stats.cache

LookupOf(path, found) ==
    /\ found.err = "OK"
    /\ found.dir.cls = "ArchiveDirectory"
    /\ Bare(found.dir.arc)
    /\ LookupBoth(path, found.dir, [found.dir EXCEPT !.arc = Slashed(found.dir.arc)],
                  ArchiveDirectory_get_file_stats(found.dir, path, stat_cache, work, inodes))

\* ArchiveDirectory.list_files, open_file and get_file_stats of path, in the
\* ArchiveDirectory of /p.pack (whose names have no leading '/') and in its twin
ArchiveLookup(path) ==
    /\ LookupOf(path, _get_directory_from_content(_path(P_pack), work, inodes))
    /\ sarcs' = sarcs \cup DirKeys("ROOT", _path(P_pack), work, inodes)
    /\ UNCHANGED <<dirs, work_dir, work, inodes, fd_map, next_fd, files, fd_path>>

InitArc ==
    /\ dirs \in { ContentRoots(body) : body \in Bodies }
    /\ work_dir \in {None, "W"}
    /\ work = (<<>> :> DirEntry)
    /\ inodes = <<>>
    /\ fd_map = <<>>
    /\ next_fd = 0
    /\ files = <<>>
    /\ stat_cache = <<>>
    /\ fd_path = <<>>
    /\ ret = NoRet
    /\ steps = 0
    /\ sarcs = {}
    /\ fd_lock = 0
    /\ calls = [t \in Threads |-> Idle]

ArcStep == steps < MaxArcSteps /\ steps' = steps + 1 /\ Alone

NextArc ==
    \/ \E partial \in ArcGetattrArgs : ArcStep /\ Getattr(partial)
    \/ \E partial \in ArcReaddirArgs : ArcStep /\ Readdir(partial)
    \/ \E path \in LookupArgs : ArcStep /\ ArchiveLookup(path)

SpecArc == InitArc /\ [][NextArc]_vars

(***************************************************************************)
(* The descriptor table on its own: opens and releases only, with more     *)
(* descriptors and longer runs, so that allocate has to step over live     *)
(* descriptors.                                                            *)
(***************************************************************************)
\* the most descriptors open at once, and the most callbacks of a run
MaxTableFds == 3
MaxTableSteps == 6

TableOpenArgs == { <<P_a, O_RDONLY>>, <<P_m, O_RDONLY>>, <<P_a, O_RDWR>> }

TableStep == steps < MaxTableSteps /\ steps' = steps + 1 /\ Alone

NextTable ==
    \/ \E a \in TableOpenArgs :
          TableStep /\ Cardinality(DOMAIN fd_map) < MaxTableFds /\ Open(a[1], a[2])
    \/ \E fd \in DOMAIN fd_map : TableStep /\ Release(fd)

SpecTable == Init /\ [][NextTable]_vars

(***************************************************************************)
(* The callbacks on the threads of the mount host (FUSE runs the           *)
(* operations multi-threaded).  A thread enters a callback, takes fd_lock  *)
(* where the callback does, and goes through it in steps: the seek and the *)
(* transfer of read and write are steps of their own, and so are the miss  *)
(* of the lru_cache of _get_sarc and the end of the call that missed.      *)
(***************************************************************************)
\* the most callbacks of a run on the threads
MaxThreadSteps == 4

ThreadOpenArgs == { <<P_a, O_RDONLY>>, <<P_m, O_RDONLY>>, <<P_a, O_RDWR>> }
ThreadReadArgs == { <<3, 0>>, <<1, 1>> }
ThreadGetattrArgs == {P_m, P_a}

\* the callbacks the mount host may hand to a thread: it reads, writes and
\* releases the descriptors it holds, and releases one once, when no call
\* on it is under way
Busy(fd) == \E u \in Threads : calls[u].pc # "idle" /\ calls[u].fd = fd
Opening == { u \in Threads : calls[u].pc # "idle" /\ calls[u].op = "open" }
Callbacks ==
    { [Idle EXCEPT !.pc = "enter", !.op = "open", !.partial = a[1], !.flags = a[2]] :
        a \in { b \in ThreadOpenArgs :
                  Cardinality(DOMAIN fd_map) + Cardinality(Opening) < MaxFds } }
    \cup { [Idle EXCEPT !.pc = "enter", !.op = "read", !.fd = a[1],
                        !.length = a[2][1], !.offset = a[2][2]] :
             a \in { b \in (DOMAIN fd_map) \X ThreadReadArgs :
                       \A u \in Threads : ~(calls[u].op = "release" /\ calls[u].fd = b[1]) } }
    \cup { [Idle EXCEPT !.pc = "enter", !.op = "write", !.fd = a[1],
                        !.buf = a[2][1], !.offset = a[2][2]] :
             a \in { b \in (DOMAIN fd_map) \X WriteArgs :
                       \A u \in Threads : ~(calls[u].op = "release" /\ calls[u].fd = b[1]) } }
    \cup { [Idle EXCEPT !.pc = "enter", !.op = "release", !.fd = fd] :
             fd \in { g \in DOMAIN fd_map : ~Busy(g) } }
    \cup { [Idle EXCEPT !.pc = "enter", !.op = "getattr", !.partial = partial] :
             partial \in ThreadGetattrArgs }

\* the thread goes on, the others stay where they are
Goes(t, pc) == calls' = [calls EXCEPT ![t].pc = pc]
Returns(t) == calls' = [calls EXCEPT ![t] = Idle]
Files == <<dirs, work_dir, work, inodes, fd_map, next_fd, files, stat_cache, fd_path>>

\* the mount host calls a callback on an idle thread
Call(t, c) ==
    /\ calls[t].pc = "idle"
    /\ steps < MaxThreadSteps
    /\ steps' = steps + 1
    /\ calls' = [calls EXCEPT ![t] = c]
    /\ UNCHANGED <<Files, ret, sarcs, fd_lock>>

\* a lock that is handed out while another thread holds it: C14 does not
\* hold of it
Acquire_Unlocked(t) ==
    /\ calls[t].pc = "enter"
    /\ calls[t].op \in {"open", "read", "write", "release"}
    /\ fd_lock' = t
    /\ Goes(t, "locked")
    /\ UNCHANGED <<Files, ret, sarcs, steps>>

\* with self.fd_lock: in open, read, write and release
Acquire(t) ==
    /\ calls[t].pc = "enter"
    /\ calls[t].op \in {"open", "read", "write", "release"}
    /\ fd_lock = 0
    /\ fd_lock' = t
    /\ Goes(t, "locked")
    /\ UNCHANGED <<Files, ret, sarcs, steps>>

\* file = self.fd_map.get_entry(fd); file.seek(offset)
SeekStep(t) ==
    /\ calls[t].pc = "locked"
    /\ calls[t].op \in {"read", "write"}
    /\ files' = [files EXCEPT ![fd_map[calls[t].fd]] = File_seek(@, calls[t].offset)]
    /\ Goes(t, "sought")
    /\ UNCHANGED <<dirs, work_dir, work, inodes, fd_map, next_fd, stat_cache, fd_path,
                   ret, sarcs, steps, fd_lock>>

\* return file.read(length) / return file.write(buf), and the lock is given up
TransferOf(c, got, put) ==
    IF c.op = "read"
    THEN Becomes(work, inodes, [files EXCEPT ![fd_map[c.fd]] = got.file],
                 fd_map, next_fd, fd_path,
                 Ret([op |-> "read", partial |-> fd_path[c.fd], fd |-> c.fd,
                      length |-> c.length, offset |-> c.offset,
                      err |-> got.err, data |-> got.data]))
    ELSE /\ dirs' = put.D
         /\ Settles(work, put.I, [files EXCEPT ![fd_map[c.fd]] = put.file],
                    fd_map, next_fd, fd_path,
                    Ret([op |-> "write", partial |-> fd_path[c.fd], fd |-> c.fd,
                         buf |-> c.buf, offset |-> c.offset, err |-> put.err]))

Transfer(t) ==
    /\ calls[t].pc = "sought"
    /\ TransferOf(calls[t],
                  File_read(files[fd_map[calls[t].fd]], calls[t].length, inodes),
                  File_write(files[fd_map[calls[t].fd]], calls[t].buf, inodes))
    /\ fd_lock' = 0
    /\ Returns(t)
    /\ UNCHANGED steps

\* the body of open and of release, under the lock
Body(t) ==
    /\ calls[t].pc = "locked"
    /\ \/ calls[t].op = "open" /\ Open(calls[t].partial, calls[t].flags)
       \/ calls[t].op = "release" /\ Release(calls[t].fd)
    /\ fd_lock' = 0
    /\ Returns(t)
    /\ UNCHANGED steps

\* the keys getattr(partial) asks _get_sarc for
GetattrKeys(partial) ==
    DirKeys(IF work_dir # None /\ Exists(work, _path(partial)) THEN "WORK" ELSE "ROOT",
            Parent(_path(partial)), work, inodes)

\* getattr, which takes no lock: a key that the lru_cache of _get_sarc does
\* not hold is a miss, and the thread goes on to read and parse the archive
Miss(t) ==
    /\ calls[t].pc = "enter"
    /\ calls[t].op = "getattr"
    /\ GetattrKeys(calls[t].partial) \ sarcs # {}
    /\ calls' = [calls EXCEPT ![t].pc = "parsing",
                              ![t].keys = GetattrKeys(calls[t].partial) \ sarcs]
    /\ UNCHANGED <<Files, ret, sarcs, steps, fd_lock>>

\* the end of getattr: after its parse, or at once when every key is held
Stat(t) ==
    /\ calls[t].op = "getattr"
    /\ \/ calls[t].pc = "parsing"
       \/ calls[t].pc = "enter" /\ GetattrKeys(calls[t].partial) \ sarcs = {}
    /\ Getattr(calls[t].partial)
    /\ Returns(t)
    /\ UNCHANGED <<steps, fd_lock>>

NextThreads ==
    \/ \E t \in Threads : \E c \in Callbacks : Call(t, c)
    \/ \E t \in Threads : Acquire(t)
    \/ \E t \in Threads : SeekStep(t)
    \/ \E t \in Threads : Transfer(t)
    \/ \E t \in Threads : Body(t)
    \/ \E t \in Threads : Miss(t)
    \/ \E t \in Threads : Stat(t)

SpecThreads == Init /\ [][NextThreads]_vars

(***************************************************************************)
(* The mounts of a file that has the name of an archive and a body the     *)
(* parser rejects.                                                         *)
(***************************************************************************)
\* the most callbacks of a run on such a mount
MaxBadSteps == 4

\* bodies read_file_and_make_sarc returns None for
BadBodies == { <<>>, <<7, 1>> }

BadOpenArgs == { <<P_pack, O_RDONLY>>, <<P_a, O_RDONLY>> }
BadGetattrArgs == {P_pack, P_raw, P_m, P_a}
BadReaddirArgs == {P_pack, P_root}

InitBad ==
    /\ dirs \in { ContentRoots(body) : body \in BadBodies }
    /\ work_dir \in {None, "W"}
    /\ work = (<<>> :> DirEntry)
    /\ inodes = <<>>
    /\ fd_map = <<>>
    /\ next_fd = 0
    /\ files = <<>>
    /\ stat_cache = <<>>
    /\ fd_path = <<>>
    /\ ret = NoRet
    /\ steps = 0
    /\ sarcs = {}
    /\ fd_lock = 0
    /\ calls = [t \in Threads |-> Idle]

BadStep == steps < MaxBadSteps /\ steps' = steps + 1 /\ Alone

NextBad ==
    \/ \E a \in BadOpenArgs : BadStep /\ FdLeft /\ Open(a[1], a[2])
    \/ \E fd \in DOMAIN fd_map, a \in ReadArgs : BadStep /\ Read(fd, a[1], a[2])
    \/ \E fd \in DOMAIN fd_map : BadStep /\ Release(fd)
    \/ \E partial \in BadGetattrArgs : BadStep /\ Getattr(partial)
    \/ \E partial \in BadReaddirArgs : BadStep /\ Readdir(partial)

SpecBad == InitBad /\ [][NextBad]_vars


(***************************************************************************)
(* What the claims speak of.                                               *)
(***************************************************************************)
\* all the bytes of the file a File object refers to
FullBytes(f) == IF f.cls = "InMemoryFile" THEN f.data ELSE HostBytes(f, inodes)

\* the bytes [off, min(off + n, size)) of a file; empty when off >= size
BytesRange(bytes, off, n) ==
    LET stop == IF off + n < Len(bytes) THEN off + n ELSE Len(bytes)
    IN  IF off >= Len(bytes) THEN <<>> ELSE [i \in 1..(stop - off) |-> bytes[off + i]]

\* the content-device view of p: a handle on it, opened anew
ContentHandle(p) == _get_file("ROOT", p, O_RDONLY, work, inodes)
ContentView(p) == FullBytes(ContentHandle(p).file)

\* p is a regular file under the work directory
InWork(p) == work_dir # None /\ IsFile(work, p)

\* the last callback was a successful open(p) / a successful read
Opened == ret.op = "open" /\ ret.err = "OK"
DidRead == ret.op = "read" /\ ret.err = "OK"

\* C1: a successful writable open(p) of a path that was not in the work
\* directory leaves a regular file at work_dir/p whose content is the whole
\* content-device view of p, whatever was opened and read before
C1_PromotionCopiesWholeFile ==
    (Opened /\ ret.promoted) =>
        /\ IsFile(work, _path(ret.partial))
        /\ inodes[work[_path(ret.partial)].ino] = ContentView(_path(ret.partial))

\* C2: without a work directory write, create, unlink, rename, rmdir, mkdir
\* and truncate fail with EROFS, for every path and every live descriptor,
\* and so does an open with a write-only or read-write flag
C2_ReadOnlyMount ==
    work_dir = None =>
        /\ ret.op \in {"write", "create", "unlink", "rename", "rmdir", "mkdir", "truncate"}
               => ret.err = "EROFS"
        /\ (ret.op = "open" /\ WantsWrite(ret.flags)) => ret.err = "EROFS"

\* C3: two distinct live descriptors never map to the same File object
C3_DistinctHandles ==
    \A fd1, fd2 \in DOMAIN fd_map : fd1 # fd2 => fd_map[fd1] # fd_map[fd2]

\* C4: a read-only open(p) yields a handle on work_dir/p whenever that is a
\* regular file and on the content device otherwise, and a read that follows
\* an open(p) returns the current bytes of work_dir/p whenever that is a
\* regular file (so after a promotion and writes, not the archive's bytes)
C4_WorkDirShadows ==
    /\ (Opened /\ ~WantsWrite(ret.flags)) =>
            LET p == _path(ret.partial)
                h == files[fd_map[ret.fd]]
            IN  IF InWork(p) THEN h.dev = "work" /\ h.ino = work[p].ino
                ELSE h.dev # "work" /\ FullBytes(h) = ContentView(p)
    /\ (DidRead /\ ret.fresh) =>
            LET p == _path(ret.partial)
            IN  ret.data = BytesRange(IF InWork(p) THEN inodes[work[p].ino]
                                      ELSE ContentView(p),
                                      ret.offset, ret.length)

\* C4 witness: an archive member was promoted and written, and a read
\* after a later read-only open returned the work directory's bytes
C4_Witness ==
    /\ DidRead /\ ret.fresh /\ ret.partial = P_m /\ ret.data # <<>>
    /\ files[fd_map[ret.fd]].flags = O_RDONLY
    /\ InWork(_path(P_m))
    /\ BytesRange(inodes[work[_path(P_m)].ino], ret.offset, ret.length)
           # BytesRange(ContentView(_path(P_m)), ret.offset, ret.length)

\* the content roots that hold p, and the last of them
RootsWith(p) == { d \in Roots : Exists(dirs[d], p) }
LastRootWith(p) == CHOOSE d \in RootsWith(p) : \A e \in RootsWith(p) : e <= d

\* C5: for a path in more than one content root, open and getattr both
\* reflect the entry of the last root that holds it
C5_Shadowing ==
    LET p == _path(ret.partial)
        several == Cardinality(RootsWith(p)) > 1 /\ ~(work_dir # None /\ Exists(work, p))
    IN  /\ (Opened /\ ~WantsWrite(ret.flags) /\ several) =>
               /\ files[fd_map[ret.fd]].dev = "content"
               /\ files[fd_map[ret.fd]].root = LastRootWith(p)
        /\ (ret.op = "getattr" /\ ret.err = "OK" /\ several /\ ~is_archive_filename(p)) =>
               ret.st = my_stat(dirs[LastRootWith(p)][p].kind,
                                Len(dirs[LastRootWith(p)][p].data))

\* the bytes of p as a reader of the mount is to see them
BytesOf(p) == IF InWork(p) THEN inodes[work[p].ino] ELSE ContentView(p)

\* C7: read(fd, n, off) returns the bytes [off, min(off + n, size)) of the
\* file behind fd, nothing when off >= size, whatever was read before through
\* this or another descriptor; and a read from offset 0 of at least size(p)
\* bytes that follows open(p) returns exactly the bytes of p
C7_ReadRoundTrip ==
    DidRead =>
        /\ ret.data = BytesRange(FullBytes(files[fd_map[ret.fd]]), ret.offset, ret.length)
        /\ Len(ret.data) <= ret.length
        /\ (ret.fresh /\ ret.offset = 0 /\ ret.length >= Len(BytesOf(_path(ret.partial))))
               => ret.data = BytesOf(_path(ret.partial))

\* C7 witness: the whole of an archive member was read from offset 0
\* through a handle that an earlier read had left at another position
C7_Witness ==
    /\ DidRead /\ ret.partial = P_m
    /\ files[fd_map[ret.fd]].cls = "InMemoryFile"
    /\ ret.offset = 0 /\ ret.from # 0
    /\ ret.data = ContentView(_path(P_m)) /\ ret.data # <<>>

\* a path of the work directory that neither p nor q is a prefix of
Beside(w, p, q) == ~IsRelativeTo(w, p) /\ ~IsRelativeTo(w, q)

\* the step of an unlink, rmdir or rename callback
C10_Step ==
    LET p == _path(ret'.partial)
        q == IF ret'.op = "rename" THEN _path(ret'.new) ELSE p
    IN  ret'.op \in {"unlink", "rmdir", "rename"} =>
            /\ UNCHANGED <<dirs, fd_map, next_fd, fd_path, files>>
            /\ IF work_dir = None \/ ~Exists(work, p)
               THEN ret'.err = "EROFS" /\ UNCHANGED <<work, inodes>>
               ELSE /\ ret'.err # "EROFS"
                    /\ \A w \in DOMAIN work \cup DOMAIN work' :
                          Beside(w, p, q) =>
                              w \in DOMAIN work /\ w \in DOMAIN work' /\ work'[w] = work[w]

\* C10: unlink, rmdir and rename fail with EROFS when there is no work
\* directory or the source path is not in it, and then change neither the
\* work directory, nor the content roots, nor the descriptor table;
\* otherwise they change the work directory at that path (and at the new
\* one) only
C10_RemovalsGuarded == [][C10_Step]_vars

\* C10 witness: an unlink of a path that only a content root holds has
\* failed with EROFS although a work directory is configured
C10_Witness ==
    /\ ret.op = "unlink" /\ ret.err = "EROFS" /\ ret.partial = P_a
    /\ work_dir # None /\ ~Exists(work, _path(P_a))

\* the archive of the mount, and the names it stores the member at p under
MountArchive == read_file_and_make_sarc(dirs[2][<< PackName >>].data).arc
StoredAs(partial) ==
    LET rel == Str(RelativeTo(_path(partial), << PackName >>))
    IN  { name \in {rel, <<"/">> \o rel} : ArcHas(MountArchive, name) }

\* the last callback was getattr of a member of the archive
StatOfMember ==
    /\ ret.op = "getattr"
    /\ IsRelativeTo(_path(ret.partial), << PackName >>)
    /\ StoredAs(ret.partial) # {}

\* C6: getattr of a member of an archive reports a regular file of the size
\* the archive records for it, whatever other names the archive stores, in
\* whatever order, and also for a member whose name has an archive extension
C6_MemberStat ==
    StatOfMember =>
        /\ ret.err = "OK"
        /\ IsRegMode(ret.st.st_mode)
        /\ \E name \in StoredAs(ret.partial) :
               ret.st.st_size = ArcGetFileSize(MountArchive, name)

\* the first segment of a member name, its leading slash apart
FirstSegment(name) == PPPath(name)[1]

\* C8: readdir of an archive file is '.', '..', .__RAW_ARCHIVE__ and the
\* first segments of the member names (so only the first three for an empty
\* archive), and .__RAW_ARCHIVE__ is not listed in a subdirectory of it
C8_ArchiveListing ==
    /\ (ret.op = "readdir" /\ ret.partial = P_pack) =>
           /\ ret.err = "OK"
           /\ ret.names = {<<".">>, <<".", ".">>, SELF_FILE_NAME}
                              \cup { FirstSegment(MountArchive[i].name) :
                                         i \in 1..Len(MountArchive) }
    /\ (ret.op = "readdir" /\ ret.partial \in {P_d, P_dm}) =>
           SELF_FILE_NAME \notin ret.names

\* C8 witness: the listing of an archive that stores /d/n and another name
C8_Witness ==
    /\ ret.op = "readdir" /\ ret.partial = P_pack /\ ret.err = "OK"
    /\ \E i \in 1..Len(MountArchive) : MountArchive[i].name = <<"/", "d", "/", "n">>
    /\ <<"d">> \in ret.names
    /\ Cardinality(ret.names) = 5

\* C9: list_files, open_file and get_file_stats give the same results on an
\* archive that stores its names bare and on the archive that stores each
\* of them with a leading '/', for every path looked up
C9_LeadingSlash ==
    ret.op = "lookup" =>
        /\ ret.names = ret.twin.names
        /\ ret.err = ret.twin.err /\ ret.data = ret.twin.data
        /\ ret.sterr = ret.twin.sterr /\ ret.st = ret.twin.st

\* no step changes a content root, and every descriptor the host has open on
\* a file of a content root is open read-only
C11_Step ==
    /\ dirs' = dirs
    /\ \A h \in DOMAIN files' :
          files'[h].dev = "content" => files'[h].flags = O_RDONLY

\* C11: whatever callbacks are made, with or without a work directory, the
\* content roots stay as they were at mount time, and files of the content
\* device are only ever opened read-only
C11_ContentRootsKept == [][C11_Step]_vars

\* C11 witness: with a work directory, a path of the content roots was
\* promoted and written through its descriptor
C11_Witness ==
    /\ ret.op = "write" /\ ret.err = "OK" /\ ret.partial = P_a
    /\ work_dir # None
    /\ dirs = ContentRoots(MainBody)
    /\ inodes[work[_path(P_a)].ino] # ContentView(_path(P_a))

\* C12: rename(a, b) of a path a of the work directory, followed by
\* rename(b, a), leaves below the work directory what was there before the
\* first rename, for every pair of paths
C12_RenameRoundTrip ==
    (ret.op = "rename" /\ ret.back) => Visible(work, inodes) = ret.was

\* the descriptor table before (M) and after (N) a step
Mapped(M, n) == n \in DOMAIN M
SameBut(M, N, fd) == \A g \in (DOMAIN M \cup DOMAIN N) \ {fd} : Mapped(M, g) /\ Mapped(N, g) /\ N[g] = M[g]

\* a step of the descriptor table: an allocation by open or create, or a free
C13_Step ==
    /\ \A n \in 0..(next_fd' - 1) : Mapped(fd_map', n)
    /\ (ret'.op \in {"open", "create"} /\ ret'.err = "OK") =>
           /\ ret'.fd >= 0 /\ ~Mapped(fd_map, ret'.fd)
           /\ \A n \in 0..(ret'.fd - 1) : Mapped(fd_map, n)
           /\ Mapped(fd_map', ret'.fd) /\ SameBut(fd_map, fd_map', ret'.fd)
           /\ next_fd' = ret'.fd + 1
    /\ ret'.op = "release" =>
           /\ ~Mapped(fd_map', ret'.fd) /\ SameBut(fd_map, fd_map', ret'.fd)
           /\ next_fd' = IF next_fd < ret'.fd THEN next_fd ELSE ret'.fd

\* C13: allocate returns the smallest non-negative integer that is not
\* mapped and sets the hint to fd + 1; free(fd) removes the mapping of fd
\* only and sets the hint to min(hint, fd); every integer below the hint is
\* in use
C13_Allocation == [][C13_Step]_vars

\* C13 witness: a descriptor was allocated below two live ones, from a hint
\* that an earlier free had lowered, and the hint now stands on a live one
C13_Witness ==
    /\ ret.op = "open" /\ ret.err = "OK" /\ ret.fd = 0
    /\ DOMAIN fd_map = {0, 1, 2}
    /\ next_fd = 1

\* the thread holds fd_lock, in the body of its callback
InLock(t) == calls[t].pc \in {"locked", "sought"}

\* the File object a call on a descriptor acts on
HandleOf(c) == fd_map[c.fd]

\* C14: on the threads of the mount host, no two callbacks are under the
\* lock at once, so between the seek and the transfer of a read or write no
\* other seek, read, write, promotion copy, allocate or free takes place:
\* the handle stays at the offset of the call, and each read returns the
\* bytes at its own offset
C14_SeekTransferAtomic ==
    /\ \A t, u \in Threads : (t # u /\ InLock(t)) => ~InLock(u)
    /\ \A t \in Threads :
          calls[t].pc = "sought" =>
              /\ calls[t].fd \in DOMAIN fd_map
              /\ files[HandleOf(calls[t])].pos = calls[t].offset
    /\ DidRead =>
          ret.data = BytesRange(FullBytes(files[fd_map[ret.fd]]), ret.offset, ret.length)

\* C14 witness: a read has returned its bytes while another thread, in a
\* read of the same handle at another offset, was waiting for the lock
C14_Witness ==
    /\ DidRead /\ ret.data # <<>>
    /\ \E u \in Threads :
          /\ calls[u].pc = "enter" /\ calls[u].op = "read"
          /\ HandleOf(calls[u]) = fd_map[ret.fd]
          /\ calls[u].offset # ret.offset

\* C15: of the threads that miss the archive cache on the same (base, path)
\* key at most one reads and parses the archive at a time (the others wait
\* for its result), and an archive whose key the cache holds is not parsed
C15_MissesDeduplicated ==
    /\ \A t, u \in Threads :
          (t # u /\ calls[t].pc = "parsing" /\ calls[u].pc = "parsing")
              => calls[t].keys \cap calls[u].keys = {}
    /\ \A t \in Threads :
          (calls[t].pc = "parsing" /\ \A u \in Threads \ {t} : calls[u].pc # "parsing")
              => calls[t].keys \cap sarcs = {}

\* C16: getattr(p/.__RAW_ARCHIVE__) of an archive file p of a content root
\* returns the host stat of p (a regular file of the byte length of p),
\* whatever getattr calls were made before
C16_RawStat ==
    (ret.op = "getattr" /\ ret.partial = P_raw) =>
        /\ ret.err = "OK"
        /\ ret.st = my_stat("file", Len(dirs[LastRootWith(_path(P_pack))][_path(P_pack)].data))

\* the bases of a resolution, and relative paths: the root, paths that do
\* not exist, a path below a regular file, paths into the archive, into an
\* archive nested in it and into one that is not there
Bases == {"ROOT"} \cup (IF work_dir # None THEN {"WORK"} ELSE {})
P_iy == Slash(P_i, <<"y">>)
ResolvedPaths ==
    { _path(partial) :
        partial \in {P_root, P_z, Slash(Slash(P_z, <<"y">>), <<"x">>), Slash(P_a, <<"b">>),
                     Slash(P_s, <<"q">>), P_pack, P_m, P_n, P_k, P_i, P_iy,
                     Slash(Slash(P_pack, <<"x", ".", "p", "a", "c", "k">>), <<"y">>)} }

\* C17: from the content-device root and from an existing work directory,
\* for every relative path, _get_directory ends: it returns a directory at
\* the path or at one of its ancestors (at the latest the root), or raises
\* an error; and no callback is left in it for ever
C17_ResolutionEnds ==
    /\ ret.err # "HANG"
    /\ \A base \in Bases, path \in ResolvedPaths :
          /\ _get_directory(base, path, work, inodes).err # "HANG"
          /\ _get_directory(base, path, work, inodes).err = "OK"
                 => IsRelativeTo(path, _get_directory(base, path, work, inodes).dir.rel)

\* C17 witness: getattr of a path below a directory the archive does not
\* hold has ended with not-found; the archive holds a nested archive, which
\* a resolution from the content device enters and one from the work
\* directory fails on, and a path that does not exist is resolved at the
\* root of the work directory
C17_Witness ==
    /\ ret.op = "getattr" /\ ret.partial = P_k /\ ret.err = "ENOENT"
    /\ work_dir # None
    /\ _get_directory("ROOT", _path(P_iy), work, inodes).err = "OK"
    /\ _get_directory("ROOT", _path(P_iy), work, inodes).dir.cls = "ArchiveDirectory"
    /\ _get_directory("ROOT", _path(P_iy), work, inodes).dir.rel = _path(P_i)
    /\ _get_directory("WORK", _path(P_iy), work, inodes).err \notin {"OK", "HANG"}
    /\ _get_directory("WORK", _path(Slash(P_z, <<"y">>)), work, inodes)
           = DirResult("OK", HostDirectory(<<>>))

\* C18: a content file p that has the name of an archive and a body the
\* parser rejects is no directory: getattr(p) does not report directory
\* mode, readdir(p) lists nothing but '.' and '..', and a read through a
\* read-only open(p) returns the raw bytes of p
C18_ParseFailure ==
    ~read_file_and_make_sarc(dirs[2][_path(P_pack)].data).ok =>
        /\ (ret.op = "getattr" /\ ret.partial = P_pack) =>
               ret.err = "OK" /\ ~IsDirMode(ret.st.st_mode)
        /\ (ret.op = "readdir" /\ ret.partial = P_pack) =>
               ret.err = "OK" /\ ret.names \subseteq {<<".">>, <<".", ".">>}
        /\ (ret.op = "open" /\ ret.partial = P_pack) => ret.err = "OK"
        /\ (DidRead /\ ret.partial = P_pack) =>
               ret.data = BytesRange(dirs[2][_path(P_pack)].data, ret.offset, ret.length)

\* the names the archive of the mount holds directly below its directory q
ArchiveChildren(q) ==
    { PPPath(MountArchive[i].name)[Len(q) + 1] :
        i \in { j \in 1..Len(MountArchive) :
                  /\ Len(PPPath(MountArchive[j].name)) > Len(q)
                  /\ SubSeq(PPPath(MountArchive[j].name), 1, Len(q)) = q } }
        \cup (IF q = <<>> THEN {SELF_FILE_NAME} ELSE {})

\* the entries of the content device at p: those of every content root
\* where p is a directory, or those of the archive
FromContent(p) ==
    IF \E d \in Roots : IsDir(dirs[d], p)
    THEN UNION { ListDir(dirs[d], p) : d \in { e \in Roots : IsDir(dirs[e], p) } }
    ELSE IF IsRelativeTo(p, << PackName >>)
    THEN ArchiveChildren(RelativeTo(p, << PackName >>))
    ELSE {}

\* p is a directory of the work directory
WorkDir(p) == work_dir # None /\ IsDir(work, p)

\* C19: readdir(p) of a directory p of the mount is '.', '..', the entries
\* of work_dir/p when that is a directory, and the entries of the content
\* device at p, in whatever sources p is missing; after a promotion of one
\* of its members an archive still lists all its members
C19_OverlayListing ==
    (ret.op = "readdir" /\ (WorkDir(_path(ret.partial)) \/ FromContent(_path(ret.partial)) # {})) =>
        /\ ret.err = "OK"
        /\ ret.names = {<<".">>, <<".", ".">>}
                           \cup (IF WorkDir(_path(ret.partial))
                                 THEN ListDir(work, _path(ret.partial)) ELSE {})
                           \cup FromContent(_path(ret.partial))

\* p is in no content root and in no archive, and not in the work directory
Nowhere(p) ==
    /\ ~Exists(work, p)
    /\ \A d \in Roots : ~Exists(dirs[d], p)
    /\ ~IsRelativeTo(p, << PackName >>)

\* the step of a writable open of a path that is nowhere, and of a getattr
\* of the path right after it
C20_Step ==
    /\ (/\ ret'.op = "open" /\ WantsWrite(ret'.flags)
        /\ work_dir # None /\ Nowhere(_path(ret'.partial))) =>
           /\ ret'.err = "ENOENT"
           /\ work' = work
           /\ fd_map' = fd_map /\ next_fd' = next_fd
    /\ (/\ ret.op = "open" /\ WantsWrite(ret.flags) /\ ret.err # "OK"
        /\ ret'.op = "getattr" /\ ret'.partial = ret.partial
        /\ \A d \in Roots : ~Exists(dirs[d], _path(ret.partial))
        /\ ~IsRelativeTo(_path(ret.partial), << PackName >>)) =>
           ret'.err = "ENOENT"

\* C20: with a work directory, a writable open of a path that is neither in
\* the work directory nor in a content root or archive fails with the
\* not-found error, creates nothing under the work directory and allocates
\* no descriptor, and a getattr of the path after it fails with not-found
C20_FailedOpenChangesNothing == [][C20_Step]_vars

\* the path the last lookup in the ArchiveDirectory of the mount was of
Looked == PPPath(ret.partial)

\* the member names of the archive of the mount, as paths
MemberPaths == { PPPath(MountArchive[i].name) : i \in 1..Len(MountArchive) }

\* q is a proper directory prefix of a member name
IsDirPrefix(q) ==
    \E n \in MemberPaths : Len(n) > Len(q) /\ SubSeq(n, 1, Len(q)) = q

\* the last segment of q is in the listing of the parent directory of q
ListedInParent(q, found) ==
    Name(q) \in ArchiveDirectory_list_files(found.dir, Parent(q))

\* C21: inside an archive, get_file_stats(q) succeeds exactly when
\* list_files of the parent of q returns the last segment of q; it reports
\* a directory exactly when q is a proper directory prefix of a member
\* name, a regular file exactly when q is a member name, and fails with
\* ENOENT for every other path, in whatever order the archive holds its
\* names
C21_StatsAgreeWithListing ==
    (ret.op = "lookup" /\ Looked # <<>>) =>
        /\ ret.sterr = "OK"
               <=> ListedInParent(Looked,
                                  _get_directory_from_content(_path(P_pack), work, inodes))
        /\ IsDirPrefix(Looked) <=> (ret.sterr = "OK" /\ IsDirMode(ret.st.st_mode))
        /\ Looked \in MemberPaths <=> (ret.sterr = "OK" /\ IsRegMode(ret.st.st_mode))
        /\ (~IsDirPrefix(Looked) /\ Looked \notin MemberPaths) => ret.sterr = "ENOENT"

====
